---- MODULE Spec2Model ----
(***************************************************************************)
(* A model of src/src/engage-voice.js: the RingCentralEngageVoice client.  *)
(*                                                                         *)
(* JavaScript values are tagged records: undefined, a string, or an object *)
(* with an identity `id` (what === compares) and fields `f`.  A string     *)
(* that the code parses (a URL, a path, the API prefix) is a sequence of   *)
(* atoms: "/" separators, a scheme, "//", a host, and pieces of path       *)
(* segments, chosen so that one string is a character prefix of another    *)
(* exactly when its atoms are a prefix of the other's atoms.               *)
(***************************************************************************)
EXTENDS Integers, Sequences, FiniteSets, TLC

VARIABLES
    server,     \* this.server, a sequence of atoms
    apiPrefix,  \* this.apiPrefix, a sequence of atoms
    isLegacy,   \* this.isLegacy
    _token,     \* this._token
    rcSession,  \* what this.rc.platform().auth().data() resolves to
    emitted,    \* the tokenChanged notifications raised so far, in order
    history,    \* every token(bundle) call so far, in order: the bundle and
                \* who called (0 the client's user, i the call chain i)
    calls       \* every call chain started so far, in order of invocation

vars == <<server, apiPrefix, isLegacy, _token, rcSession, emitted, history, calls>>

\* ------------------------------------------------------------------ bounds

\* The number of calls of the client's methods in a behaviour.
MaxOps == 3

\* ------------------------------------------------------------- JS values

Undefined == [t |-> "undefined"]
Str(s) == [t |-> "string", s |-> s]
Obj(id, f) == [t |-> "object", id |-> id, f |-> f]

\* ToBoolean of a value: undefined and '' are falsy, an object is truthy.
Truthy(v) == v.t = "object" \/ (v.t = "string" /\ v.s # "")

\* Property read o.k: undefined when o has no own property k.
Prop(o, k) == IF k \in DOMAIN o.f THEN Str(o.f[k]) ELSE Undefined

\* String conversion of a template literal or of string + value.
StringOf(v) ==
    CASE v.t = "undefined" -> "undefined"
      [] v.t = "string" -> v.s
      [] OTHER -> "[object Object]"

\* a || ''
OrEmpty(v) == IF Truthy(v) THEN v ELSE Str("")

\* { ...a, ...b } on property maps: b's properties win.
Spread(a, b) ==
    [k \in (DOMAIN a) \cup (DOMAIN b) |-> IF k \in DOMAIN b THEN b[k] ELSE a[k]]

NoProps == [k \in {} |-> ""]
NoHeaders == [k \in {} |-> Undefined]

RECURSIVE Flatten(_)
Flatten(s) == IF s = <<>> THEN "" ELSE s[1] \o Flatten(Tail(s))

StartsWith(s, p) == Len(s) >= Len(p) /\ SubSeq(s, 1, Len(p)) = p

\* ------------------------------------------------------------- constants

SERVER == <<"https:", "//", "engage.ringcentral.com">>
LEGACY_SERVERS == {"https://portal.vacd.biz", "https://portal.virtualacd.biz"}
version == "0.1.0"

\* ------------------------------------------------------------------ urijs

IsScheme(a) == a \in {"https:", "http:"}

\* URI(string): the parts the client reads.  A URL with an authority and no
\* path gets the path "/".
URI(s) ==
    IF Len(s) >= 2 /\ IsScheme(s[1]) /\ s[2] = "//"
    THEN LET rest == SubSeq(s, 3, Len(s))
             host == IF rest # <<>> /\ rest[1] # "/" THEN rest[1] ELSE ""
             p == IF host = "" THEN rest ELSE Tail(rest)
         IN  [protocol |-> s[1], hostname |-> host,
              path |-> IF p = <<>> THEN <<"/">> ELSE p]
    ELSE [protocol |-> "", hostname |-> "", path |-> s]

\* path.split('/'): a sequence of segments, each a sequence of atoms.
RECURSIVE Split(_)
Split(p) ==
    IF p = <<>> THEN << <<>> >>
    ELSE IF p[1] = "/" THEN << <<>> >> \o Split(Tail(p))
    ELSE LET r == Split(Tail(p)) IN << <<p[1]>> \o r[1] >> \o Tail(r)

\* uri.segment(): the segments of the path, without the leading empty one of
\* an absolute path.
Segment(p) ==
    IF p # <<>> /\ p[1] = "/" THEN Tail(Split(p)) ELSE Split(p)

\* uri.segment(array) on an empty URI: empty segments collapse, only a
\* trailing one survives.
RECURSIVE Collapse(_, _)
Collapse(acc, v) ==
    IF v = <<>> THEN acc
    ELSE IF v[1] = <<>> /\ (acc = <<>> \/ acc[Len(acc)] = <<>>)
         THEN Collapse(acc, Tail(v))
    ELSE IF acc # <<>> /\ acc[Len(acc)] = <<>>
         THEN Collapse(Append(SubSeq(acc, 1, Len(acc) - 1), v[1]), Tail(v))
    ELSE Collapse(Append(acc, v[1]), Tail(v))

\* segments.join('/')
RECURSIVE Join(_)
Join(segs) ==
    IF segs = <<>> THEN <<>>
    ELSE IF Len(segs) = 1 THEN segs[1]
    ELSE segs[1] \o <<"/">> \o Join(Tail(segs))

\* URI.recodePath on one atom: a line break and blanks are percent-encoded.
Recode(a) == IF a = "\n    X" THEN "%0A%20%20%20%20X" ELSE a

\* uri.normalize() on a path without dot segments.
Normalize(p) == [i \in 1..Len(p) |-> Recode(p[i])]

\* URI.joinPaths(a, b) on the paths of its two arguments.
joinPaths(p1, p2) ==
    LET segments == Segment(p1) \o Segment(p2)
        nonEmpty == {i \in 1..Len(segments) : segments[i] # <<>>}
        joined == Join(Collapse(<<>>, segments))
    IN  IF nonEmpty = {} THEN <<>>
        ELSE Normalize(IF p1 = <<>> \/ p1[1] = "/"
                       THEN <<"/">> \o joined ELSE joined)

\* uri.toString()
toString(u) ==
    IF u.hostname = "" THEN Flatten(u.path)
    ELSE u.protocol \o "//" \o u.hostname \o Flatten(u.path)

parseUrl(uri, path) ==
    LET u == URI(uri)
        pathJoined == joinPaths(u.path, path)
    IN  [u EXCEPT !.path = pathJoined]

\* ------------------------------------------------------------ HTTPError

HTTPError(status, statusText, data, config) ==
    [kind |-> "HTTPError", status |-> status, statusText |-> statusText,
     data |-> data, config |-> config]

NoError == [kind |-> "none"]

\* ----------------------------------------------------------- token store

\* token(bundle) without the comparison: every call notifies.
token_AlwaysEmits(b) ==
    [_token |-> b,
     emitted |-> Append(emitted, [bundle |-> b, stored |-> b, set |-> Len(history) + 1])]

\* token(bundle) comparing the fields of two bundles instead of the objects.
token_ByValue(b) ==
    LET tokenChanged == IF _token.t = "object" /\ b.t = "object"
                        THEN _token.f # b.f ELSE _token # b
    IN  [_token |-> b,
         emitted |-> IF tokenChanged
                     THEN Append(emitted, [bundle |-> b, stored |-> b,
                                           set |-> Len(history) + 1])
                     ELSE emitted]

\* token(bundle) notifying before it replaces the store.
token_EmitsBeforeStore(b) ==
    LET tokenChanged == _token # b
    IN  [_token |-> b,
         emitted |-> IF tokenChanged
                     THEN Append(emitted, [bundle |-> b, stored |-> _token,
                                           set |-> Len(history) + 1])
                     ELSE emitted]

\* token(_token) with one argument: the new store and the new list of
\* notifications.  A notification records the bundle it carries, what
\* token() returns while the observers run, and which token(bundle) call
\* raised it (its place in history).
token(b) ==
    LET tokenChanged == _token # b
        stored == b
    IN  [_token |-> stored,
         emitted |-> IF tokenChanged
                     THEN Append(emitted, [bundle |-> b, stored |-> stored,
                                           set |-> Len(history) + 1])
                     ELSE emitted]

\* isLegacyServer looking at the first legacy host only.
isLegacyServer_FirstOnly(s) == Flatten(s) = "https://portal.vacd.biz"

isLegacyServer(s) == Flatten(s) \in LEGACY_SERVERS

\* ------------------------------------------------------ header injection

_bearerAuthorizationHeader ==
    LET accessToken == IF Truthy(_token) THEN Prop(_token, "accessToken") ELSE Str("")
    IN  "Authorization" :> Str("Bearer " \o StringOf(accessToken))

_legacyHeader ==
    LET accessToken == IF Truthy(_token) THEN Prop(_token, "apiToken") ELSE Str("")
    IN  "X-Auth-Token" :> accessToken

\* _patchHeaders spreading the caller's headers first.
_patchHeaders_CallerFirst(headers) ==
    LET userAgentHeader == Str("ringcentral-engage-voice-js/v" \o version)
        authHeaders == IF isLegacy THEN _legacyHeader ELSE _bearerAuthorizationHeader
    IN  Spread(headers,
               Spread(authHeaders,
                      "X-User-Agent" :> userAgentHeader @@ "RC-User-Agent" :> userAgentHeader))

\* _patchHeaders with the two schemes the wrong way round.
_patchHeaders_Inverted(headers) ==
    LET userAgentHeader == Str("ringcentral-engage-voice-js/v" \o version)
        authHeaders == IF isLegacy THEN _bearerAuthorizationHeader ELSE _legacyHeader
    IN  Spread(Spread(authHeaders,
                      "X-User-Agent" :> userAgentHeader @@ "RC-User-Agent" :> userAgentHeader),
               headers)

_patchHeaders(headers) ==
    LET userAgentHeader == Str("ringcentral-engage-voice-js/v" \o version)
        authHeaders == IF isLegacy THEN _legacyHeader ELSE _bearerAuthorizationHeader
    IN  Spread(Spread(authHeaders,
                      "X-User-Agent" :> userAgentHeader @@ "RC-User-Agent" :> userAgentHeader),
               headers)

\* ------------------------------------------------------------ dispatcher

\* request(config) adding the prefix to every relative url.
request_AlwaysPrefix(config) ==
    LET uri0 == URI(config.url)
        path == joinPaths(apiPrefix, config.url)
        uri == IF uri0.hostname = "" THEN parseUrl(server, path) ELSE uri0
    IN  [config EXCEPT !.url = toString(uri), !.headers = _patchHeaders(config.headers)]

\* request(config): the config handed to this._axios.request.
request(config) ==
    LET uri0 == URI(config.url)
        url == config.url
        prefix == IF StartsWith(url, apiPrefix) \/ StartsWith(url, <<"/">> \o apiPrefix)
                  THEN <<>> ELSE apiPrefix
        path == joinPaths(prefix, url)
        uri == IF uri0.hostname = "" THEN parseUrl(server, path) ELSE uri0
    IN  [config EXCEPT !.url = toString(uri), !.headers = _patchHeaders(config.headers)]

\* What a caller passes to a verb helper: the url, the data and the config.
Config(url, data, headers) ==
    [method |-> "", url |-> url, data |-> data, headers |-> headers]

get(config) == request([config EXCEPT !.method = "get"])
delete(config) == request([config EXCEPT !.method = "delete"])
post(config) == request([config EXCEPT !.method = "post"])
put(config) == request([config EXCEPT !.method = "put"])
patch(config) == request([config EXCEPT !.method = "patch"])

\* ------------------------------------------------------ login / exchange

FormHeaders == "Content-Type" :> Str("application/x-www-form-urlencoded")

\* getLegacyToken, first request: the login POST.
LoginRequest(username, password) ==
    [method |-> "post",
     url |-> Flatten(server) \o "/api/v1/auth/login",
     data |-> Str("username=" \o username \o "&password=" \o password),
     headers |-> FormHeaders]

\* getLegacyToken, second request: the token POST, after the login's data r.
TokenRequest(r) ==
    [method |-> "post",
     url |-> Flatten(server) \o "/api/v1/admin/token",
     data |-> Undefined,
     headers |-> "X-Auth-Token" :> OrEmpty(Prop(r, "authToken"))]

\* The bundle stored without the login's data.
LegacyBundle_NoMerge(id, r, r1) == Obj(id, "apiToken" :> r1)

\* The bundle stored being the stored bundle with the new fields added.
LegacyBundle_KeepsStored(id, r, r1) ==
    Obj(id, Spread(IF Truthy(_token) THEN _token.f ELSE NoProps,
                   Spread(r.f, "apiToken" :> r1)))

\* getLegacyToken, the bundle stored: { ...r, apiToken: r1 }, a new object.
LegacyBundle(id, r, r1) == Obj(id, Spread(r.f, "apiToken" :> r1))

\* getToken: whether the session of the identity platform is read first.
ReadsSession(refreshToken) == ~Truthy(refreshToken)

\* getToken: the token put in the body, `session` being what auth().data()
\* resolved to when it was read.
ExchangeToken(refreshToken, session) ==
    IF ReadsSession(refreshToken)
    THEN OrEmpty(Prop(IF Truthy(session) THEN session ELSE Obj(0, NoProps), "access_token"))
    ELSE refreshToken

\* getToken: the exchange POST.
ExchangeRequest(refreshToken, session) ==
    [method |-> "post",
     url |-> Flatten(server) \o "/api/auth/login/rc/accesstoken?includeRefresh=true",
     data |-> Str(IF Truthy(refreshToken)
                  THEN "refreshToken=" \o StringOf(ExchangeToken(refreshToken, session))
                           \o "&rcTokenType=Bearer"
                  ELSE "rcAccessToken=" \o StringOf(ExchangeToken(refreshToken, session))
                           \o "&rcTokenType=Bearer"),
     headers |-> FormHeaders]

\* revokeLegacyToken: the url given to delete().
RevokeUrl ==
    <<"/", "api", "/", "v1", "/", "admin", "/", "token", "/",
      StringOf(Prop(_token, "apiToken")), "\n    X">>

\* The wrapper passing the response's data and config in the wrong order.
axiosRequest_SwapsFields(outcome) ==
    IF outcome.ok THEN outcome
    ELSE IF outcome.e.response # Undefined
         THEN [ok |-> FALSE,
               e |-> HTTPError(outcome.e.response.status, outcome.e.response.statusText,
                               outcome.e.response.config, outcome.e.response.data)]
         ELSE outcome

\* The wrapper installed on this._axios.request: what the caller of
\* this._axios.request gets when the transport settles with `outcome`.
axiosRequest(outcome) ==
    IF outcome.ok THEN outcome
    ELSE IF outcome.e.response # Undefined
         THEN [ok |-> FALSE,
               e |-> HTTPError(outcome.e.response.status, outcome.e.response.statusText,
                               outcome.e.response.data, outcome.e.response.config)]
         ELSE outcome

\* ----------------------------------------------------------------- inputs

\* The servers a client is constructed with: the default and the two legacy
\* hosts.
Servers ==
    {SERVER,
     <<"https:", "//", "portal.vacd.biz">>,
     <<"https:", "//", "portal.virtualacd.biz">>}

\* What a caller passes to token(bundle): undefined, a modern bundle, and a
\* bundle with an apiToken, no accessToken and an empty refreshToken.
BundleA == Obj(1, "accessToken" :> "tokA" @@ "refreshToken" :> "refA")
BundleC == Obj(2, "apiToken" :> "apiA" @@ "refreshToken" :> "")
TokenArgs == {Undefined, BundleA, BundleC}

\* The verb helpers.
Verbs == {"get", "post", "put", "patch", "delete"}

\* The urls a caller passes to a verb helper: relative ones with and without
\* the prefix, one whose first segment only begins with the prefix, and
\* absolute ones.
Urls ==
    {<<"/", "calls">>,
     <<"calls">>,
     <<"voice", "/", "calls">>,
     <<"/", "voice", "/", "calls">>,
     <<"voice", "mail">>,
     <<"https:", "//", "other.example.com", "/", "x">>,
     <<"https:", "//", "other.example.com">>}

\* The headers of the config a caller passes to a verb helper.
CallerHeaders ==
    {NoHeaders,
     "X-Auth-Token" :> Str("mine"),
     "Authorization" :> Str("Basic mine"),
     "X-User-Agent" :> Str("custom") @@ "Accept" :> Str("text/plain")}

\* The calls of the verb helpers made while authorizations, refreshes and
\* other calls are in flight.
Requests ==
    {[verb |-> "get", url |-> <<"/", "calls">>, headers |-> NoHeaders],
     [verb |-> "post", url |-> <<"voice", "/", "calls">>,
      headers |-> "Authorization" :> Str("Basic mine")]}

\* What the servers answer to the call chain i: the login and the token POST
\* give values of their own to each call chain; the exchange POST gives
\* either the tokens of BundleA again or tokens of its own, without a
\* refreshToken.
LoginData(i) == {"authToken" :> ("auth" \o ToString(i))}
TokenData(i) == {"api" \o ToString(i)}
ExchangeData(i) ==
    {"accessToken" :> "tokA" @@ "refreshToken" :> "refA",
     "accessToken" :> ("tok" \o ToString(i))}

\* How the transport fails on the request q: without a response, or with one.
Failures(q) ==
    {[kind |-> "Error", id |-> "network", response |-> Undefined],
     [kind |-> "Error", id |-> "status",
      response |-> [status |-> 401, statusText |-> "Unauthorized",
                    data |-> Str("denied"), config |-> q]]}

\* ------------------------------------------------------------ call chains

\* A call chain: the method called, where it is suspended (pc), what the
\* caller passed (config, arg), the store when it was called (before), the
\* requests it has handed to the transport (sent), the login's data (r),
\* how this.rc.login settled for it (login: "none" before it has), whether
\* it has read the session of the identity platform and what it
\* read (read, session), the data of the last answer (value), the failure
\* of the transport if it failed (failure), what the chain threw (error),
\* and what the method returned to its caller (returned): the promise that
\* settles as the chain does, or undefined.
NewCall(op, pc, config, arg, sent) ==
    [op |-> op, pc |-> pc, config |-> config, arg |-> arg, before |-> _token,
     sent |-> sent, r |-> Undefined, login |-> "none", read |-> FALSE,
     session |-> Undefined,
     value |-> Undefined, failure |-> NoError, error |-> NoError,
     returned |-> "promise"]

NoConfig == Config(<<>>, Undefined, NoHeaders)

Awaiting == {"login", "token", "exchange", "request"}

\* The calls of the client's methods made so far.
Ops == Len(calls) + Cardinality({k \in 1..Len(history) : history[k].by = 0})

Init ==
    /\ server \in Servers
    /\ apiPrefix = <<"voice">>
    /\ isLegacy = isLegacyServer(server)
    /\ _token = Undefined
    /\ rcSession = Undefined
    /\ emitted = <<>>
    /\ history = <<>>
    /\ calls = <<>>

\* The caller calls token(b).
Token(b) ==
    /\ Ops < MaxOps
    /\ _token' = token(b)._token
    /\ emitted' = token(b).emitted
    /\ history' = Append(history, [bundle |-> b, by |-> 0])
    /\ UNCHANGED <<server, apiPrefix, isLegacy, rcSession, calls>>

\* A call of a verb helper handing its request to the transport twice.
Dispatch_SendsTwice(op, q, config) ==
    /\ Ops < MaxOps
    /\ calls' = Append(calls, NewCall(op, "request", config, Undefined, <<q, q>>))
    /\ UNCHANGED <<server, apiPrefix, isLegacy, _token, rcSession, emitted, history>>

\* A call of a verb helper, up to the await of the transport.
Dispatch(op, q, config) ==
    /\ Ops < MaxOps
    /\ calls' = Append(calls, NewCall(op, "request", config, Undefined, <<q>>))
    /\ UNCHANGED <<server, apiPrefix, isLegacy, _token, rcSession, emitted, history>>

\* A call of the verb helper `verb` with a url and a config holding headers;
\* post, put and patch are given data.
Helper(verb, url, headers) ==
    LET c == Config(url, IF verb \in {"post", "put", "patch"} THEN Str("payload")
                         ELSE Undefined, headers)
        q == CASE verb = "get" -> get(c)
               [] verb = "delete" -> delete(c)
               [] verb = "post" -> post(c)
               [] verb = "put" -> put(c)
               [] verb = "patch" -> patch(c)
    IN  Dispatch(verb, q, c)

\* getToken(refreshToken), up to its first await: either the await of the
\* session, or the await of the exchange POST.
getToken(op, refreshToken) ==
    IF ReadsSession(refreshToken)
    THEN NewCall(op, "authdata", NoConfig, refreshToken, <<>>)
    ELSE NewCall(op, "exchange", NoConfig, refreshToken,
                 <<ExchangeRequest(refreshToken, Undefined)>>)

\* authorize going to the exchange without awaiting this.rc.login.
authorize_SkipsLogin(username, password) ==
    IF isLegacy
    THEN NewCall("authorize", "login", NoConfig, Undefined,
                 <<LoginRequest(username, password)>>)
    ELSE NewCall("authorize", "authdata", NoConfig, Undefined, <<>>)

\* authorize(...args), up to its first await: the login POST on a legacy
\* client, this.rc.login on a modern one.
authorize(username, password) ==
    IF isLegacy
    THEN NewCall("authorize", "login", NoConfig, Undefined,
                 <<LoginRequest(username, password)>>)
    ELSE NewCall("authorize", "rclogin", NoConfig, Undefined, <<>>)

\* refresh passing the stored accessToken.
refresh_PassesAccessToken ==
    IF Truthy(_token)
    THEN getToken("refresh", Prop(_token, "accessToken"))
    ELSE [NewCall("refresh", "threw", NoConfig, Undefined, <<>>)
            EXCEPT !.error = [kind |-> "TypeError"]]

\* refresh(): reading this._token.refreshToken throws when no bundle is
\* stored.
refresh ==
    IF Truthy(_token)
    THEN getToken("refresh", Prop(_token, "refreshToken"))
    ELSE [NewCall("refresh", "threw", NoConfig, Undefined, <<>>)
            EXCEPT !.error = [kind |-> "TypeError"]]

\* revokeLegacyToken(): the delete is started and its promise dropped, the
\* method has no return statement.  The chain's pc follows the promise of
\* the delete.
revokeLegacyToken ==
    IF Truthy(_token)
    THEN LET c == Config(RevokeUrl, Undefined, NoHeaders)
         IN  [NewCall("revoke", "request", c, Undefined, <<delete(c)>>)
                EXCEPT !.returned = "undefined"]
    ELSE [NewCall("revoke", "resolved", NoConfig, Undefined, <<>>)
            EXCEPT !.returned = "undefined"]

Start(c) ==
    /\ Ops < MaxOps
    /\ calls' = Append(calls, c)
    /\ UNCHANGED <<server, apiPrefix, isLegacy, _token, rcSession, emitted, history>>

Authorize == Start(authorize("u", "p"))

Refresh == Start(refresh)

RevokeLegacyToken == Start(revokeLegacyToken)

\* How this.rc.login settles: it throws and leaves the session as it was, or
\* it resolves and leaves a session with an access token.
Logins ==
    {[ok |-> FALSE, session |-> rcSession],
     [ok |-> TRUE, session |-> Obj(0, "access_token" :> "rcA")]}

\* this.rc.login settles for the call chain i.
RcLogin(i, login) ==
    /\ calls[i].pc = "rclogin"
    /\ rcSession' = login.session
    /\ calls' = IF login.ok
                THEN [calls EXCEPT ![i].pc = "authdata", ![i].login = "ok"]
                ELSE [calls EXCEPT ![i].pc = "rejected", ![i].login = "failed",
                                   ![i].error = [kind |-> "Error", id |-> "rclogin",
                                                 response |-> Undefined]]
    /\ UNCHANGED <<server, apiPrefix, isLegacy, _token, emitted, history>>

\* this.rc.platform().auth().data() resolves for the call chain i, and
\* getToken goes on to the exchange POST.
AuthData(i) ==
    /\ calls[i].pc = "authdata"
    /\ calls' = [calls EXCEPT ![i].pc = "exchange",
                              ![i].read = TRUE,
                              ![i].session = rcSession,
                              ![i].sent = <<ExchangeRequest(calls[i].arg, rcSession)>>]
    /\ UNCHANGED <<server, apiPrefix, isLegacy, _token, rcSession, emitted, history>>

\* What the server may answer to the request the call chain i awaits.
DataFor(i) ==
    CASE calls[i].pc = "login" -> {Obj(10 * i + 1, f) : f \in LoginData(i)}
      [] calls[i].pc = "token" -> {Str(d) : d \in TokenData(i)}
      [] calls[i].pc = "exchange" -> {Obj(10 * i + 3, f) : f \in ExchangeData(i)}
      [] OTHER -> {Str("ok")}

Outcomes(i) ==
    IF calls[i].pc \notin Awaiting THEN {}
    ELSE {[ok |-> TRUE, data |-> d] : d \in DataFor(i)}
             \cup {[ok |-> FALSE, e |-> e] :
                      e \in Failures(calls[i].sent[Len(calls[i].sent)])}

\* The chain sending its first request once more when it fails, instead
\* of throwing.
Rejected_RetriesOnce(c, e) ==
    IF Len(c.sent) = 1
    THEN [c EXCEPT !.sent = Append(c.sent, c.sent[1])]
    ELSE [c EXCEPT !.pc = "rejected", !.error = e]

\* The call chain c after its awaited this._axios.request threw e.
Rejected(c, e) == [c EXCEPT !.pc = "rejected", !.error = e]

\* The headers of the request built when the transport answers, not when
\* the helper was called.
Resolved_PatchesLate(c, res) ==
    [c EXCEPT !.pc = "resolved", !.value = res.data,
              !.sent = <<[c.sent[1] EXCEPT !.headers = _patchHeaders(c.config.headers)]>>]

\* The call chain c after its awaited request of a verb helper answered res.
Resolved(c, res) == [c EXCEPT !.pc = "resolved", !.value = res.data]

\* getLegacyToken after the login POST answered res: the token POST is sent.
AfterLogin(c, res) ==
    [c EXCEPT !.pc = "token", !.r = res.data, !.value = res.data,
              !.sent = Append(c.sent, TokenRequest(res.data))]

\* getLegacyToken and getToken after their last POST answered res: the
\* chain calls token(bundle) and returns.
Stored(c, res) == [c EXCEPT !.pc = "resolved", !.value = res.data]

\* The transport settles the request the call chain i awaits, and the chain
\* runs to its next await or to its end.
Settle(i, outcome) ==
    LET c == [calls[i] EXCEPT !.failure = IF outcome.ok THEN NoError ELSE outcome.e]
        res == axiosRequest(outcome)
        b == IF c.pc = "token" THEN LegacyBundle(10 * i + 2, c.r, res.data.s) ELSE res.data
    IN  /\ c.pc \in Awaiting
        /\ IF ~res.ok
           THEN /\ calls' = [calls EXCEPT ![i] = Rejected(c, res.e)]
                /\ UNCHANGED <<_token, emitted, history>>
           ELSE IF c.pc = "request"
           THEN /\ calls' = [calls EXCEPT ![i] = Resolved(c, res)]
                /\ UNCHANGED <<_token, emitted, history>>
           ELSE IF c.pc = "login"
           THEN /\ calls' = [calls EXCEPT ![i] = AfterLogin(c, res)]
                /\ UNCHANGED <<_token, emitted, history>>
           ELSE /\ calls' = [calls EXCEPT ![i] = Stored(c, res)]
                /\ _token' = token(b)._token
                /\ emitted' = token(b).emitted
                /\ history' = Append(history, [bundle |-> b, by |-> i])
        /\ UNCHANGED <<server, apiPrefix, isLegacy, rcSession>>

Next ==
    \/ \E b \in TokenArgs : Token(b)
    \/ \E x \in Requests : Helper(x.verb, x.url, x.headers)
    \/ Authorize
    \/ Refresh
    \/ RevokeLegacyToken
    \/ \E i \in 1..Len(calls) : \E login \in Logins : RcLogin(i, login)
    \/ \E i \in 1..Len(calls) : AuthData(i)
    \/ \E i \in 1..Len(calls) : \E outcome \in Outcomes(i) : Settle(i, outcome)

Spec == Init /\ [][Next]_vars

\* The dispatcher alone: one call of a verb helper, on every url and every
\* set of headers, in every state of the store that token(bundle) gives.
NextRequest ==
    \/ \E b \in TokenArgs : Token(b)
    \/ /\ calls = <<>>
       /\ \E verb \in Verbs, url \in Urls, headers \in CallerHeaders :
              Helper(verb, url, headers)
    \/ \E i \in 1..Len(calls) : \E outcome \in Outcomes(i) : Settle(i, outcome)

SpecRequest == Init /\ [][NextRequest]_vars

\* ================================================================= claims

\* What the store held when the k-th token(bundle) call was made.
Prev(k) == IF k = 1 THEN Undefined ELSE history[k - 1].bundle

\* The notifications the k-th token(bundle) call raised.
Raised(k) == {j \in 1..Len(emitted) : emitted[j].set = k}

\* The token(bundle) calls the call chain i made.
SetsBy(i) == {k \in 1..Len(history) : history[k].by = i}

\* Two bundles with the same fields and values.
SameFields(a, b) == a.t = "object" /\ b.t = "object" /\ a.f = b.f

\* The url of the exchange POST, of the login POST and of the token POST.
ExchangeUrl == Flatten(server) \o "/api/auth/login/rc/accesstoken?includeRefresh=true"
LoginUrl == Flatten(server) \o "/api/v1/auth/login"
TokenUrl == Flatten(server) \o "/api/v1/admin/token"

\* The access token of a session, '' when the session or the token is absent.
SessionToken(session) ==
    IF session.t = "object" /\ "access_token" \in DOMAIN session.f
    THEN session.f["access_token"] ELSE ""

\* C1: starting from an empty store, every token(bundle) call raises exactly
\* one tokenChanged notification when its bundle is not the one stored (so
\* the first of two equal sets in a row raises one and the second none, and
\* a later set of another bundle raises one more), and none when its bundle
\* is the one stored; no notification comes from anything else.
C1_ChangeDetection ==
    /\ \A k \in 1..Len(history) :
          Cardinality(Raised(k)) = IF history[k].bundle # Prev(k) THEN 1 ELSE 0
    /\ \A j \in 1..Len(emitted) : emitted[j].set \in 1..Len(history)

\* C1 witness: a bundle set twice in a row from the empty store, then a
\* different one: two notifications.
C1_Witness ==
    /\ Len(history) = 3
    /\ history[1].bundle # Undefined
    /\ history[2].bundle = history[1].bundle
    /\ history[3].bundle # history[2].bundle
    /\ Len(emitted) = 2

\* C2 as claimed: a refresh or authorize that stores a bundle whose fields
\* all equal those of the stored bundle raises no tokenChanged.
C2_NoEmitOnEqualFields ==
    \A k \in 1..Len(history) :
        (history[k].by # 0 /\ SameFields(Prev(k), history[k].bundle)) => Raised(k) = {}

\* C2 amended: a token(bundle) call with the very object that is stored (or
\* undefined on an empty store) raises no tokenChanged, and the comparison
\* is by reference only: every successful refresh or authorize stores a new
\* object and raises exactly one tokenChanged carrying it, also when all its
\* fields equal those of the stored bundle.
C2_ReferenceEquality ==
    \A k \in 1..Len(history) :
        /\ history[k].bundle = Prev(k) => Raised(k) = {}
        /\ history[k].by # 0 =>
              /\ history[k].bundle # Prev(k)
              /\ Cardinality(Raised(k)) = 1
              /\ \A j \in Raised(k) : emitted[j].bundle = history[k].bundle

\* C2 witness: a refresh or authorize stored a bundle with the fields of the
\* stored one, and a notification was raised for it.
C2_Witness ==
    \E k \in 1..Len(history) :
        /\ history[k].by # 0
        /\ SameFields(Prev(k), history[k].bundle)
        /\ Raised(k) # {}

\* C3: every tokenChanged notification carries the bundle that the
\* token(bundle) call raising it was given, and while the observers are
\* notified token() returns that bundle: the store is replaced first.
C3_NotifyAfterStore ==
    \A j \in 1..Len(emitted) :
        /\ emitted[j].stored = emitted[j].bundle
        /\ emitted[j].set \in 1..Len(history)
        /\ emitted[j].bundle = history[emitted[j].set].bundle

\* C3 witness: two notifications, one raised by a call of the client's user
\* and one by an authorize or a refresh.
C3_Witness ==
    /\ Len(emitted) >= 2
    /\ \E j \in 1..Len(emitted) : history[emitted[j].set].by = 0
    /\ \E j \in 1..Len(emitted) : history[emitted[j].set].by # 0

\* C4: the mode is Legacy exactly when the configured server is one of the
\* two legacy hosts, Modern otherwise, and no step of any operation changes
\* the mode or the server it was derived from.
C4_ServerMode ==
    /\ [](isLegacy <=> Flatten(server) \in {"https://portal.vacd.biz",
                                             "https://portal.virtualacd.biz"})
    /\ [][isLegacy' = isLegacy /\ server' = server]_vars

\* C4 witness: a client of the second legacy host, still Legacy after an
\* authorize has stored its bundle and another chain has been rejected.
C4_Witness ==
    /\ isLegacy
    /\ Flatten(server) = "https://portal.virtualacd.biz"
    /\ \E i \in 1..Len(calls) : calls[i].op = "authorize" /\ calls[i].pc = "resolved"
    /\ \E i \in 1..Len(calls) : calls[i].pc = "rejected"

\* A header value 'Bearer ' followed by a credential of the model.
IsBearer(v) ==
    v.t = "string" /\ \E c \in {"", "undefined", "tokA"} : v.s = "Bearer " \o c

\* C5 as claimed: whatever headers the caller supplies, a request of a verb
\* helper carries X-Auth-Token and no Authorization on a Legacy client, and
\* a Bearer Authorization and no X-Auth-Token on a Modern one.
C5_ExactlyOneScheme ==
    \A i \in 1..Len(calls) :
        calls[i].op \in Verbs =>
            LET h == calls[i].sent[1].headers
            IN  IF isLegacy
                THEN "X-Auth-Token" \in DOMAIN h /\ "Authorization" \notin DOMAIN h
                ELSE /\ "Authorization" \in DOMAIN h
                     /\ IsBearer(h["Authorization"])
                     /\ "X-Auth-Token" \notin DOMAIN h

\* C5 amended: in every state of the store, a request of a verb helper on a
\* Legacy client carries X-Auth-Token, and an Authorization header only when
\* the caller's config supplies it; on a Modern client it carries
\* Authorization, a Bearer value unless the caller's config supplies the
\* header, and X-Auth-Token only when the caller's config supplies it.
C5_SchemeByMode ==
    \A i \in 1..Len(calls) :
        calls[i].op \in Verbs =>
            LET h == calls[i].sent[1].headers
                own == calls[i].config.headers
                other == IF isLegacy THEN "Authorization" ELSE "X-Auth-Token"
                mine == IF isLegacy THEN "X-Auth-Token" ELSE "Authorization"
            IN  /\ mine \in DOMAIN h
                /\ other \in DOMAIN h => (other \in DOMAIN own /\ h[other] = own[other])
                /\ (~isLegacy /\ mine \notin DOMAIN own) => IsBearer(h[mine])
                /\ mine \in DOMAIN own => h[mine] = own[mine]

\* C5 witness: on a Modern client with a bundle stored, a request whose
\* caller supplied X-Auth-Token.
C5_Witness ==
    \E i \in 1..Len(calls) :
        /\ calls[i].op \in Verbs
        /\ ~isLegacy
        /\ Truthy(calls[i].before)
        /\ "X-Auth-Token" \in DOMAIN calls[i].config.headers

\* The value of field k of the bundle b, '' when no bundle is stored or the
\* bundle has no such field.
FieldOrEmpty(b, k) == IF b.t = "object" /\ k \in DOMAIN b.f THEN b.f[k] ELSE ""

\* C6: the auth header injected into a request of a verb helper (one whose
\* caller does not supply that header) is X-Auth-Token with the apiToken of
\* the bundle stored at the call on a Legacy client, and Authorization with
\* 'Bearer ' and the accessToken of that bundle on a Modern one, the
\* credential being '' when no bundle is stored or the bundle lacks the field.
C6_EmptyCredentialWhenAbsent ==
    \A i \in 1..Len(calls) :
        calls[i].op \in Verbs =>
            LET h == calls[i].sent[1].headers
                own == calls[i].config.headers
                b == calls[i].before
            IN  /\ (isLegacy /\ "X-Auth-Token" \notin DOMAIN own) =>
                      h["X-Auth-Token"] = Str(FieldOrEmpty(b, "apiToken"))
                /\ (~isLegacy /\ "Authorization" \notin DOMAIN own) =>
                      h["Authorization"] = Str("Bearer " \o FieldOrEmpty(b, "accessToken"))

\* C7: a legacy authorize sends the login POST first and the token POST only
\* after the login has answered, with the login's authToken as X-Auth-Token;
\* when it has succeeded it has sent exactly these two POSTs and made one
\* token(bundle) call, with a bundle that has the fields of the login's answer
\* and the token POST's answer as apiToken, so both authToken and apiToken.
C7_LegacyAuthorize ==
    \A i \in 1..Len(calls) :
        (calls[i].op = "authorize" /\ isLegacy) =>
            LET c == calls[i]
            IN  /\ Len(c.sent) \in {1, 2}
                /\ c.sent[1].method = "post"
                /\ c.sent[1].url = LoginUrl
                /\ c.sent[1].data = Str("username=u&password=p")
                /\ c.pc = "login" => Len(c.sent) = 1
                /\ Len(c.sent) = 2 =>
                      /\ c.r.t = "object"
                      /\ c.sent[2].method = "post"
                      /\ c.sent[2].url = TokenUrl
                      /\ c.sent[2].headers["X-Auth-Token"] = Str(c.r.f["authToken"])
                /\ c.pc # "resolved" => SetsBy(i) = {}
                /\ c.pc = "resolved" =>
                      /\ Len(c.sent) = 2
                      /\ Cardinality(SetsBy(i)) = 1
                      /\ \A k \in SetsBy(i) :
                            /\ history[k].bundle.f = Spread(c.r.f, "apiToken" :> c.value.s)
                            /\ {"authToken", "apiToken"} \subseteq DOMAIN history[k].bundle.f

\* C7 witness: a legacy authorize that has succeeded.
C7_Witness ==
    \E i \in 1..Len(calls) :
        isLegacy /\ calls[i].op = "authorize" /\ calls[i].pc = "resolved"

\* C8: a modern authorize sends nothing before this.rc.login has resolved;
\* if the login fails it is rejected having sent nothing and stored nothing;
\* after the login it sends one exchange POST whose body is
\* rcAccessToken=<token>&rcTokenType=Bearer, <token> being the access token
\* of the session as read by that call, '' when absent (the same holds of
\* every call that reads the session).
C8_ModernAuthorize ==
    \A i \in 1..Len(calls) :
        LET c == calls[i]
        IN  /\ (c.op = "authorize" /\ ~isLegacy) =>
                  /\ c.login = "none" => (c.pc = "rclogin" /\ c.sent = <<>> /\ ~c.read)
                  /\ c.login = "failed" =>
                        (c.pc = "rejected" /\ c.sent = <<>> /\ ~c.read /\ SetsBy(i) = {})
                  /\ c.sent # <<>> => (c.login = "ok" /\ c.read /\ Len(c.sent) = 1)
                  /\ c.pc = "resolved" => c.sent # <<>>
            /\ (c.read /\ c.arg = Undefined) =>
                  /\ Len(c.sent) = 1
                  /\ c.sent[1].method = "post"
                  /\ c.sent[1].url = ExchangeUrl
                  /\ c.sent[1].data = Str("rcAccessToken=" \o SessionToken(c.session)
                                              \o "&rcTokenType=Bearer")

\* C8 witness: one modern authorize has succeeded and another was rejected by
\* a failed login.
C8_Witness ==
    /\ ~isLegacy
    /\ \E i \in 1..Len(calls) : calls[i].op = "authorize" /\ calls[i].pc = "resolved"
    /\ \E i \in 1..Len(calls) : calls[i].op = "authorize" /\ calls[i].login = "failed"

\* C9 as claimed: a refresh made while a bundle is stored never reads the
\* session and sends refreshToken=<stored refreshToken>&rcTokenType=Bearer,
\* whatever the stored refreshToken is.
C9_AlwaysRefreshTokenForm ==
    \A i \in 1..Len(calls) :
        (calls[i].op = "refresh" /\ Truthy(calls[i].before)) =>
            LET c == calls[i]
            IN  /\ ~c.read
                /\ c.pc # "authdata"
                /\ Len(c.sent) = 1
                /\ c.sent[1].url = ExchangeUrl
                /\ c.sent[1].data = Str("refreshToken="
                                            \o FieldOrEmpty(c.before, "refreshToken")
                                            \o "&rcTokenType=Bearer")

\* C9 amended: a refresh made while a bundle with a non-empty refreshToken is
\* stored sends refreshToken=<stored refreshToken>&rcTokenType=Bearer to the
\* endpoint of the modern exchange at once and never reads the session; when
\* the stored refreshToken is empty or missing it reads the session and sends
\* rcAccessToken=<session's access token, or ''>&rcTokenType=Bearer there.
C9_RefreshByRefreshToken ==
    \A i \in 1..Len(calls) :
        (calls[i].op = "refresh" /\ Truthy(calls[i].before)) =>
            LET c == calls[i]
                rt == FieldOrEmpty(c.before, "refreshToken")
            IN  IF rt # ""
                THEN /\ ~c.read
                     /\ Len(c.sent) = 1
                     /\ c.sent[1].method = "post"
                     /\ c.sent[1].url = ExchangeUrl
                     /\ c.sent[1].data = Str("refreshToken=" \o rt \o "&rcTokenType=Bearer")
                ELSE \/ c.pc = "authdata" /\ c.sent = <<>> /\ ~c.read
                     \/ /\ c.read
                        /\ Len(c.sent) = 1
                        /\ c.sent[1].method = "post"
                        /\ c.sent[1].url = ExchangeUrl
                        /\ c.sent[1].data = Str("rcAccessToken=" \o SessionToken(c.session)
                                                    \o "&rcTokenType=Bearer")

\* C9 witness: a refresh with a stored refreshToken has succeeded, and a
\* refresh with an empty or missing one has sent its exchange POST.
C9_Witness ==
    /\ \E i \in 1..Len(calls) :
          /\ calls[i].op = "refresh"
          /\ FieldOrEmpty(calls[i].before, "refreshToken") # ""
          /\ calls[i].pc = "resolved"
    /\ \E i \in 1..Len(calls) :
          /\ calls[i].op = "refresh"
          /\ Truthy(calls[i].before)
          /\ FieldOrEmpty(calls[i].before, "refreshToken") = ""
          /\ calls[i].sent # <<>>

\* C10: whenever the transport fails a request of any call chain (a verb
\* helper, the delete of a revoke, a login, token or exchange POST), the
\* chain is rejected: with an HTTPError whose status, statusText, data and
\* config are those of the failure's response when it has one, with the
\* failure itself when it has none; and an HTTPError comes from nothing else.
C10_ErrorClassifier ==
    \A i \in 1..Len(calls) :
        LET c == calls[i]
        IN  /\ c.failure # NoError =>
                  /\ c.pc = "rejected"
                  /\ IF c.failure.response # Undefined
                     THEN /\ c.error.kind = "HTTPError"
                          /\ c.error.status = c.failure.response.status
                          /\ c.error.statusText = c.failure.response.statusText
                          /\ c.error.data = c.failure.response.data
                          /\ c.error.config = c.failure.response.config
                          /\ c.error.config = c.sent[Len(c.sent)]
                     ELSE c.error = c.failure
            /\ c.error.kind = "HTTPError" =>
                  (c.failure # NoError /\ c.failure.response # Undefined)
            /\ (c.pc = "resolved" /\ c.sent # <<>>) => c.failure = NoError

\* C10 witness: a legacy authorize rejected with the HTTPError of its token
\* POST, a verb helper rejected with a failure that has no response.
C10_Witness ==
    /\ \E i \in 1..Len(calls) :
          /\ calls[i].op = "authorize"
          /\ Len(calls[i].sent) = 2
          /\ calls[i].error.kind = "HTTPError"
    /\ \E i \in 1..Len(calls) :
          /\ calls[i].op \in Verbs
          /\ calls[i].pc = "rejected"
          /\ calls[i].error = calls[i].failure
          /\ calls[i].failure.response = Undefined

\* C11: revokeLegacyToken sends nothing while no bundle is stored and one
\* DELETE whose url carries the stored apiToken otherwise, and when that
\* DELETE fails the caller of revokeLegacyToken gets the failure: the method
\* has returned the promise that is rejected with it.
C11_RevokeFailurePropagates ==
    \A i \in 1..Len(calls) :
        calls[i].op = "revoke" =>
            LET c == calls[i]
            IN  /\ ~Truthy(c.before) => c.sent = <<>>
                /\ Truthy(c.before) =>
                      /\ Len(c.sent) = 1
                      /\ c.sent[1].method = "delete"
                      /\ \E k \in 1..Len(c.config.url) :
                            c.config.url[k] = StringOf(Prop(c.before, "apiToken"))
                /\ c.failure # NoError =>
                      /\ c.pc = "rejected"
                      /\ c.error # NoError
                      /\ c.returned = "promise"

\* A url without its leading slash.
Bare(u) == IF u # <<>> /\ u[1] = "/" THEN Tail(u) ELSE u

\* C12: a relative url of a verb helper that already starts with the
\* apiPrefix, with or without a leading slash, is sent as the server followed
\* by "/" and that url, the prefix being there once: voice/calls and
\* /voice/calls both go to {server}/voice/calls.
C12_NoDoublePrefix ==
    \A i \in 1..Len(calls) :
        calls[i].op \in Verbs =>
            LET u == calls[i].config.url
            IN  /\ (URI(u).hostname = "" /\ StartsWith(Bare(u), apiPrefix)) =>
                      calls[i].sent[1].url = Flatten(server) \o "/" \o Flatten(Bare(u))
                /\ u \in {<<"voice", "/", "calls">>, <<"/", "voice", "/", "calls">>} =>
                      calls[i].sent[1].url = Flatten(server) \o "/voice/calls"

\* C12 witness: /voice/calls has been sent to {server}/voice/calls.
C12_Witness ==
    \E i \in 1..Len(calls) :
        /\ calls[i].op \in Verbs
        /\ calls[i].config.url = <<"/", "voice", "/", "calls">>
        /\ calls[i].sent[1].url = Flatten(server) \o "/voice/calls"

\* The sequences of atoms that spell the string str, among the urls a caller
\* passes and those urls followed by "/".
Spellings(str) == {r \in Urls \cup {Append(u, "/") : u \in Urls} : Flatten(r) = str}

\* C13: a url with a non-empty hostname given to a verb helper is sent as it
\* was given, and resolving what was sent gives it again.
C13_AbsoluteUnchanged ==
    \A i \in 1..Len(calls) :
        (calls[i].op \in Verbs /\ URI(calls[i].config.url).hostname # "") =>
            LET sentUrl == calls[i].sent[1].url
            IN  /\ sentUrl = Flatten(calls[i].config.url)
                /\ \A r \in Spellings(sentUrl) :
                      request(Config(r, Undefined, NoHeaders)).url = sentUrl

\* The name of the auth header of the client's mode, and the value the
\* client injects for it when the bundle b is stored.
AuthName == IF isLegacy THEN "X-Auth-Token" ELSE "Authorization"
AuthValue(b) ==
    IF isLegacy
    THEN (IF Truthy(b) THEN Prop(b, "apiToken") ELSE Str(""))
    ELSE Str("Bearer " \o StringOf(IF Truthy(b) THEN Prop(b, "accessToken") ELSE Str("")))

\* C14: in every state, the auth header of a request of a verb helper (one
\* whose caller does not supply that header), in flight or settled, is the
\* one built from the bundle that was stored when the helper was called,
\* whatever token(bundle) calls, authorizations and refreshes have replaced
\* the store since.
C14_CapturedAtDispatch ==
    \A i \in 1..Len(calls) :
        (calls[i].op \in Verbs /\ AuthName \notin DOMAIN calls[i].config.headers) =>
            /\ Len(calls[i].sent) = 1
            /\ calls[i].sent[1].headers[AuthName] = AuthValue(calls[i].before)

\* C14 witness: while a request is in flight, an authorize or a refresh has
\* replaced the store with a bundle that gives another auth header; and a
\* request has been answered after the store was replaced.
C14_Witness ==
    /\ \E i \in 1..Len(calls) :
          /\ calls[i].op \in Verbs
          /\ calls[i].pc = "request"
          /\ AuthName \notin DOMAIN calls[i].config.headers
          /\ AuthValue(_token) # AuthValue(calls[i].before)
          /\ \E k \in 1..Len(history) : history[k].by > i
    /\ \E i \in 1..Len(calls) :
          /\ calls[i].op \in Verbs
          /\ calls[i].pc = "resolved"
          /\ AuthName \notin DOMAIN calls[i].config.headers
          /\ AuthValue(_token) # AuthValue(calls[i].before)

\* The authorizations and refreshes among the call chains.
AuthCalls == {i \in 1..Len(calls) : calls[i].op \in {"authorize", "refresh"}}

\* C15: an authorize or a refresh whose login or exchange step fails is
\* rejected with that failure (as the wrapper classifies it) and has made no
\* token(bundle) call; when the legacy login POST fails there is no token
\* POST; no request is sent twice; and the step that rejects the call leaves
\* the store, the notifications and the requests sent as they were, for good.
C15_FailedAuthAborts ==
    /\ [](\A i \in AuthCalls :
            LET c == calls[i]
            IN  /\ c.failure # NoError =>
                      /\ c.pc = "rejected"
                      /\ IF c.failure.response = Undefined
                         THEN c.error = c.failure
                         ELSE /\ c.error.kind = "HTTPError"
                              /\ c.error.status = c.failure.response.status
                /\ c.pc = "rejected" =>
                      /\ SetsBy(i) = {}
                      /\ \A j \in 1..Len(emitted) : history[emitted[j].set].by # i
                /\ (c.pc = "rejected" /\ isLegacy /\ c.r = Undefined) => Len(c.sent) = 1
                /\ Len(c.sent) <= (IF isLegacy /\ c.op = "authorize" THEN 2 ELSE 1)
                /\ \A j, k \in 1..Len(c.sent) : c.sent[j] = c.sent[k] => j = k)
    /\ [][\A i \in AuthCalls :
            /\ (calls[i].pc # "rejected" /\ calls'[i].pc = "rejected") =>
                  /\ _token' = _token
                  /\ emitted' = emitted
                  /\ history' = history
                  /\ calls'[i].sent = calls[i].sent
            /\ calls[i].pc = "rejected" => calls'[i] = calls[i]]_vars

\* C15 witness: with a bundle stored, a legacy authorize has failed at its
\* login POST and another at its token POST, and the bundle is still stored.
C15_Witness ==
    /\ isLegacy
    /\ _token = BundleC
    /\ \E i \in AuthCalls :
          /\ calls[i].pc = "rejected" /\ Len(calls[i].sent) = 1
          /\ calls[i].before = BundleC
    /\ \E i \in AuthCalls :
          /\ calls[i].pc = "rejected" /\ Len(calls[i].sent) = 2
          /\ calls[i].before = BundleC

\* The calls that went through the dispatcher: those of the verb helpers and
\* the delete of a revoke.
DispatcherCalls ==
    {i \in 1..Len(calls) : calls[i].op \in Verbs \cup {"revoke"} /\ calls[i].sent # <<>>}

\* C16: a call of the dispatcher hands exactly one request to the transport
\* and makes no token(bundle) call; the step that settles it, with an answer
\* or a failure (a 401 included), leaves the store, the notifications and
\* every other call as they were, starts no call and sends nothing more; and
\* a settled call never runs again.
C16_SingleAttempt ==
    /\ [](\A i \in DispatcherCalls : Len(calls[i].sent) = 1 /\ SetsBy(i) = {})
    /\ [][\A i \in DispatcherCalls :
            /\ (calls[i].pc = "request" /\ calls'[i].pc # "request") =>
                  /\ _token' = _token
                  /\ emitted' = emitted
                  /\ history' = history
                  /\ Len(calls') = Len(calls)
                  /\ calls'[i].sent = calls[i].sent
                  /\ \A j \in 1..Len(calls) : j # i => calls'[j] = calls[j]
            /\ calls[i].pc # "request" => calls'[i] = calls[i]]_vars

\* C16 witness: with a bundle stored, the only call made, a verb helper, has
\* been rejected with status 401.
C16_Witness ==
    /\ _token = BundleA
    /\ Len(calls) = 1
    /\ calls[1].op \in Verbs
    /\ calls[1].pc = "rejected"
    /\ calls[1].error.kind = "HTTPError"
    /\ calls[1].error.status = 401
    /\ Len(history) = 1

\* The non-empty segments of a relative url.
Segments(u) == SelectSeq(Segment(u), LAMBDA x : x # <<>>)

\* The url under {server}/{apiPrefix}/ that a relative url stands for: its
\* segments after the prefix segment, which is added when it is not the
\* first of them.
UnderPrefix(u) ==
    LET segs == Segments(u)
        full == IF segs # <<>> /\ segs[1] = apiPrefix THEN segs ELSE <<apiPrefix>> \o segs
    IN  Flatten(server) \o "/" \o Flatten(Join(full))

\* C17: every relative url of a verb helper is sent as the url under
\* {server}/{apiPrefix}/ it stands for: the first segment of the path sent
\* is the apiPrefix, added once when the first segment of the url given is
\* not the apiPrefix.
C17_RelativeUnderPrefix ==
    \A i \in 1..Len(calls) :
        (calls[i].op \in Verbs /\ URI(calls[i].config.url).hostname = "") =>
            calls[i].sent[1].url = UnderPrefix(calls[i].config.url)

\* C18: the request of a revokeLegacyToken made while a bundle is stored is
\* DELETE {server}/api/v1/admin/token/{apiToken}, with the apiToken of that
\* bundle and nothing before /api or after the token.
C18_RevokeEndpoint ==
    \A i \in 1..Len(calls) :
        (calls[i].op = "revoke" /\ Truthy(calls[i].before)) =>
            /\ Len(calls[i].sent) = 1
            /\ calls[i].sent[1].method = "delete"
            /\ calls[i].sent[1].url =
                  TokenUrl \o "/" \o StringOf(Prop(calls[i].before, "apiToken"))

\* The names of the user-agent pair and the value the client gives them.
UserAgentNames == {"X-User-Agent", "RC-User-Agent"}
UserAgent == Str("ringcentral-engage-voice-js/v" \o version)

\* C19: the headers of a request of a verb helper are the caller's headers,
\* each with the caller's value, and, for each name the caller does not
\* supply, the auth header of the client's mode and the two user-agent
\* headers with the values the client injects; there is no other header.
C19_HeaderPrecedence ==
    \A i \in 1..Len(calls) :
        calls[i].op \in Verbs =>
            LET h == calls[i].sent[1].headers
                own == calls[i].config.headers
            IN  /\ DOMAIN h = DOMAIN own \cup UserAgentNames \cup {AuthName}
                /\ \A k \in DOMAIN own : h[k] = own[k]
                /\ \A k \in UserAgentNames \ DOMAIN own : h[k] = UserAgent
                /\ AuthName \notin DOMAIN own => h[AuthName] = AuthValue(calls[i].before)

\* C19 witness: a caller has supplied X-User-Agent and no RC-User-Agent, and
\* another name the client does not inject.
C19_Witness ==
    \E i \in 1..Len(calls) :
        /\ calls[i].op \in Verbs
        /\ calls[i].config.headers = ("X-User-Agent" :> Str("custom") @@ "Accept" :> Str("text/plain"))
        /\ calls[i].sent[1].headers["X-User-Agent"] = Str("custom")
        /\ calls[i].sent[1].headers["RC-User-Agent"] = UserAgent
        /\ calls[i].sent[1].headers["Accept"] = Str("text/plain")
        /\ calls[i].before # Undefined

\* The bundle b is the result of the authentication i alone: on a legacy
\* authorize the answer to its login POST with the answer to its token POST
\* as apiToken, otherwise the answer to its exchange POST.
FromAuth(i, b) ==
    LET c == calls[i]
    IN  /\ c.pc = "resolved"
        /\ b.t = "object"
        /\ IF isLegacy /\ c.op = "authorize"
           THEN /\ c.r.t = "object"
                /\ c.r.f \in LoginData(i)
                /\ c.value.s \in TokenData(i)
                /\ b.f = Spread(c.r.f, "apiToken" :> c.value.s)
           ELSE /\ b = c.value
                /\ b.f \in ExchangeData(i)

\* C20: in every state the store holds undefined or a bundle the caller
\* passed to token(bundle), or the result of one authorize or refresh that
\* has succeeded, whole; every bundle ever stored is one of these, the store
\* holds the last of them, and an authorize or refresh has made one
\* token(bundle) call when it has succeeded and none otherwise.
C20_WholesaleReplace ==
    /\ \/ _token \in TokenArgs
       \/ \E i \in AuthCalls : FromAuth(i, _token)
    /\ _token = IF history = <<>> THEN Undefined ELSE history[Len(history)].bundle
    /\ \A k \in 1..Len(history) :
          IF history[k].by = 0
          THEN history[k].bundle \in TokenArgs
          ELSE history[k].by \in AuthCalls /\ FromAuth(history[k].by, history[k].bundle)
    /\ \A i \in AuthCalls :
          Cardinality(SetsBy(i)) = IF calls[i].pc = "resolved" THEN 1 ELSE 0

\* C20 witness: two legacy authorizes overlapped and the one called later
\* stored its bundle first; the store holds the bundle of the other.
C20_Witness ==
    /\ isLegacy
    /\ \E k, l \in 1..Len(history) :
          /\ k < l
          /\ history[l].by > 0
          /\ history[k].by > history[l].by
          /\ calls[history[k].by].op = "authorize"
          /\ calls[history[l].by].op = "authorize"
          /\ _token = history[l].bundle

====
